---- MODULE Spec2Model ----
(***************************************************************************)
(* Model of aide/backend/backend_openai.py: the Docker host resolver       *)
(* (get_docker_host_ip), the once-only client initialisation               *)
(* (_setup_openai_client) and the request executor (query).                *)
(*                                                                         *)
(* Text is modelled as follows.  A field of a routing-table line is a      *)
(* sequence of character codes: 0..15 are the hexadecimal digits, NonHex   *)
(* is any other character.  A line is the sequence of its fields (what     *)
(* line.strip().split() yields).  A dotted IPv4 address is the tuple of    *)
(* its four octets, <<192,168,0,1>> for "192.168.0.1".                     *)
(***************************************************************************)
EXTENDS Integers, Sequences, FiniteSets, TLC

VARIABLES
    openOutcome,    \* what open("/proc/net/route") does: "ok" or the exception raised
    routeLines,     \* f.readlines(): the lines of the file, header first
    dnsOutcome,     \* socket.gethostbyname("host.docker.internal"): an address or "gaierror"
    resolved,       \* result of a stand-alone call of get_docker_host_ip (NotCalled before)
    done,           \* funcy.once: the wrapped function has been entered (done_set is non-empty)
    lockHolder,     \* funcy.once: the caller holding the wrapper's lock, 0 when free
    client,         \* the module global _client (NoClient is None)
    resolverRuns,   \* history: calls of get_docker_host_ip made by _setup_openai_client
    constructions,  \* history: openai.OpenAI(...) constructions
    observed,       \* history: the client handles callers read at line 114
    queries,        \* calls of query started so far
    pc,             \* each caller's position in query
    func_spec,      \* each caller's func_spec argument
    host,           \* each caller's local docker_host_ip
    elapsed,        \* time.time() - t0 for each caller, from line 112 to line 119
    calls,          \* remote calls the caller's current query has issued
    sleeps,         \* backoff sleeps of the caller's current query
    slept,          \* total backoff delay of the caller's current query
    lastFailure,    \* class of the failure of the latest remote call, Null if none
    completion,     \* the response the remote call returned
    outcome,        \* what query returned or raised
    kwargs,         \* each caller's **model_kwargs
    request,        \* each caller's filtered_kwargs, the keyword arguments of the remote call
    sent,           \* history: the keyword arguments the remote calls of the current query received
    failedQueries   \* history: calls of query that have raised

----------------------------------------------------------------------------
(* Bounds of the model *)

\* largest number of rows below the header of the routing table
MaxRows == 3

\* number of concurrent callers of query
NumCallers == 2

\* total number of calls of query
MaxQueries == 3

\* backoff_create: remote-call attempts of one query before it gives up
MaxTries == 3

\* backoff_create: largest random jitter added to a backoff delay
MaxJitter == 1

----------------------------------------------------------------------------
(* Routing-table text *)

\* A field of a row is the sequence of its characters.  A character that
\* int(s, 16) takes as a digit is written as its digit value, 0 .. 15; the
\* characters "+", "-", "_" and "x" or "X" have codes of their own; every other
\* character is NonHex.
NonHex == 16
PlusSign == 17
MinusSign == 18
Underscore == 19
LetterX == 20

\* "00000000": the default destination
ZeroDest == <<0, 0, 0, 0, 0, 0, 0, 0>>

\* an interface name such as "eth0" (never parsed)
Iface == <<NonHex>>

\* "0100A8C0" (192.168.0.1 once byte-order corrected)
GwA == <<0, 1, 0, 0, 10, 8, 12, 0>>
\* "0202000A" (10.0.2.2 once byte-order corrected)
GwB == <<0, 2, 0, 2, 0, 0, 0, 10>>
\* "FE01A8C0" (192.168.1.254 once byte-order corrected)
GwC == <<15, 14, 0, 1, 10, 8, 12, 0>>
\* "zz": not hexadecimal
GwBad == <<NonHex, NonHex>>
\* "100000000": one digit too many for an unsigned 32-bit value
GwWide == <<1, 0, 0, 0, 0, 0, 0, 0, 0>>
\* "0000A8C0": a non-default destination
NetDest == <<0, 0, 0, 0, 10, 8, 12, 0>>

\* flags "0003" (up, gateway), "0007" (up, gateway, host), "0001" (up only),
\* "0002" (gateway only), "zz" (not hexadecimal)
FlagsUG == <<0, 0, 0, 3>>
FlagsUGH == <<0, 0, 0, 7>>
FlagsU == <<0, 0, 0, 1>>
FlagsG == <<0, 0, 0, 2>>
FlagsBad == <<NonHex, NonHex>>
\* "0x3": up and gateway, written with a prefix
FlagsPrefixed == <<0, LetterX, 3>>
\* "-1": every bit set
FlagsMinus == <<MinusSign, 1>>
\* "-1" as a gateway: a negative value
GwMinus == <<MinusSign, 1>>

\* the header line "Iface Destination Gateway Flags ..."
Header == <<Iface, Iface, Iface, Iface>>

\* the rows a table is built from
RowKinds ==
    { <<Iface, ZeroDest, GwA, FlagsUG>>,      \* default route, up + gateway
      <<Iface, ZeroDest, GwB, FlagsUGH>>,     \* default route, up + gateway + host
      <<Iface, ZeroDest, GwC, FlagsUG>>,      \* default route, another gateway
      <<Iface, NetDest, ZeroDest, FlagsU>>,   \* non-default route
      <<Iface, ZeroDest, GwA, FlagsU>>,       \* default destination, gateway flag missing
      <<Iface, ZeroDest, GwA, FlagsG>>,       \* default destination, up flag missing
      <<>>,                                   \* blank line
      <<Iface, ZeroDest>>,                    \* two fields
      <<Iface, ZeroDest, GwA>>,               \* three fields: no flags field
      <<Iface, ZeroDest, GwA, FlagsBad>>,     \* flags not hexadecimal
      <<Iface, ZeroDest, GwBad, FlagsUG>>,    \* gateway not hexadecimal
      <<Iface, ZeroDest, GwA, FlagsPrefixed>>, \* default route, flags "0x3"
      <<Iface, ZeroDest, GwB, FlagsMinus>>,   \* default route, flags "-1"
      <<Iface, ZeroDest, GwMinus, FlagsUG>>,  \* gateway negative
      <<Iface, ZeroDest, GwWide, FlagsUG>> }  \* gateway wider than 32 bits

RECURSIVE SeqsUpTo(_, _)
SeqsUpTo(S, n) ==
    IF n = 0 THEN { <<>> }
    ELSE LET shorter == SeqsUpTo(S, n - 1)
         IN shorter \cup { Append(s, x) : s \in { t \in shorter : Len(t) = n - 1 }, x \in S }

\* the files the resolver may find: empty, or a header followed by up to MaxRows rows
RouteFiles == { <<>> } \cup { <<Header>> \o rows : rows \in SeqsUpTo(RowKinds, MaxRows) }

OpenOutcomes == { "ok", "FileNotFoundError", "PermissionError", "IsADirectoryError",
                  "OSError" }

\* the address host.docker.internal resolves to when it resolves
DnsAddress == <<192, 168, 65, 254>>
DnsOutcomes == { DnsAddress, <<>> }
DnsFailed(d) == d = <<>>

----------------------------------------------------------------------------
(* get_docker_host_ip *)

\* int(s, 16) reads an optional sign, an optional prefix "0x" or "0X", which
\* one underscore may follow, and then digits, single underscores allowed
\* between two digits.
HasSign(tok) == tok # <<>> /\ tok[1] \in { PlusSign, MinusSign }
AfterSign(tok) == IF HasSign(tok) THEN Tail(tok) ELSE tok
AfterPrefix(t) ==
    IF Len(t) >= 2 /\ t[1] = 0 /\ t[2] = LetterX
    THEN LET r == SubSeq(t, 3, Len(t)) IN
         IF r # <<>> /\ r[1] = Underscore THEN Tail(r) ELSE r
    ELSE t
IsDigit(c) == c \in 0 .. 15
DigitsOk(b) ==
    /\ b # <<>>
    /\ IsDigit(b[1])
    /\ IsDigit(b[Len(b)])
    /\ \A i \in DOMAIN b : IsDigit(b[i]) \/ b[i] = Underscore
    /\ \A i \in 1 .. Len(b) - 1 : ~(b[i] = Underscore /\ b[i + 1] = Underscore)

\* int(s, 16) accepts the text
IsHex(tok) == DigitsOk(AfterPrefix(AfterSign(tok)))

\* The magnitude of an integer is kept as its base-16 numeral without leading
\* zeros (<<>> is 0), so that values up to and beyond 2^32 - 1 are exact.
RECURSIVE StripZeros(_)
StripZeros(digits) ==
    IF digits = <<>> THEN <<>>
    ELSE IF Head(digits) = 0 THEN StripZeros(Tail(digits))
    ELSE digits

\* an integer: its sign and its magnitude
IntValue(neg, mag) == [neg |-> neg /\ mag # <<>>, mag |-> mag]

ValueError == [neg |-> FALSE, mag |-> << NonHex >>]

\* int(s, 16): the value, or ValueError
ParseHex(tok) ==
    IF IsHex(tok)
    THEN IntValue(tok[1] = MinusSign,
                  StripZeros(SelectSeq(AfterPrefix(AfterSign(tok)), IsDigit)))
    ELSE ValueError

\* the j-th base-16 digit of the magnitude of n, counted from the least
\* significant one (j = 0)
DigitAt(n, j) == IF j < Len(n.mag) THEN n.mag[Len(n.mag) - j] ELSE 0

\* (n >> 8k) & 0xFF
ByteAt(n, k) == 16 * DigitAt(n, 2 * k + 1) + DigitAt(n, 2 * k)

\* n does not fit an unsigned 32-bit integer: struct.pack("<I", n) raises struct.error
TooWide(n) == n.neg \/ Len(n.mag) > 8

\* struct.pack("<I", n): the four bytes, least significant first
PackReversed(n) == << ByteAt(n, 3), ByteAt(n, 2), ByteAt(n, 1), ByteAt(n, 0) >>
PackLE(n) == << ByteAt(n, 0), ByteAt(n, 1), ByteAt(n, 2), ByteAt(n, 3) >>

\* socket.inet_ntoa(b): the dotted address whose octets are the bytes in order
InetNtoa(b) == << b[1], b[2], b[3], b[4] >>

\* flags & 0x0003; a negative value is taken in two's complement
FlagBits(flags) ==
    IF flags.neg THEN (4 - (DigitAt(flags, 0) % 4)) % 4 ELSE DigitAt(flags, 0) % 4

\* (flags & 0x0003) == 0x0003: the up and gateway bits are both set
BothFlags(flags) == FlagBits(flags) = 3

Returned(ip, tier) == [kind |-> "return", ip |-> ip, tier |-> tier, exc |-> "none"]
Raised(exc) == [kind |-> "raise", ip |-> <<>>, tier |-> "none", exc |-> exc]
FellThrough == [kind |-> "fallthrough", ip |-> <<>>, tier |-> "none", exc |-> "none"]

\* the body of the loop over the rows, from row i on
RECURSIVE ScanRows(_, _)
ScanRows(rows, i) ==
    IF i > Len(rows) THEN FellThrough
    ELSE LET parts == rows[i] IN
         IF Len(parts) < 3 THEN ScanRows(rows, i + 1)
         ELSE IF Len(parts) < 4 THEN Raised("IndexError")
         ELSE LET destination == parts[2]
                  gateway_hex == parts[3]
                  flags == ParseHex(parts[4])
              IN IF flags = ValueError THEN Raised("ValueError")
                 ELSE IF destination = ZeroDest /\ BothFlags(flags)
                 THEN LET gw == ParseHex(gateway_hex) IN
                      IF gw = ValueError THEN Raised("ValueError")
                      ELSE IF TooWide(gw) THEN Raised("struct.error")
                      ELSE Returned(InetNtoa(PackLE(gw)), "route")
                 ELSE ScanRows(rows, i + 1)

\* f.readlines()[1:]
SkipHeader(lines) == IF lines = <<>> THEN <<>> ELSE Tail(lines)

\* the statements inside the first try
RouteTier(open, lines) ==
    IF open # "ok" THEN Raised(open) ELSE ScanRows(SkipHeader(lines), 1)

\* the classes of Python 3.11 that derive from BaseException and not from
\* Exception (a class derived from one of them goes by its name)
NotExceptions == { "BaseException", "BaseExceptionGroup", "KeyboardInterrupt",
                   "SystemExit", "GeneratorExit", "CancelledError" }

\* "except Exception": every class but those is caught
CaughtOnlyOSError(exc) ==
    exc \in { "OSError", "FileNotFoundError", "PermissionError", "IsADirectoryError",
              "gaierror" }
Caught(exc) == exc \notin NotExceptions

\* the statements inside the second try
DnsTier(dns) == IF DnsFailed(dns) THEN Raised("gaierror") ELSE Returned(dns, "dns")

HardFallback == <<172, 17, 0, 1>>

\* a tier's outcome as seen after its except clause
AfterExcept(r) == IF r.kind = "raise" /\ Caught(r.exc) THEN FellThrough ELSE r

DnsBeforeRouteTable(open, lines, dns) ==
    LET t2 == AfterExcept(DnsTier(dns)) IN
    IF t2.kind # "fallthrough" THEN t2
    ELSE LET t1 == AfterExcept(RouteTier(open, lines)) IN
         IF t1.kind # "fallthrough" THEN t1
         ELSE Returned(HardFallback, "const")

get_docker_host_ip(open, lines, dns) ==
    LET t1 == AfterExcept(RouteTier(open, lines)) IN
    IF t1.kind # "fallthrough" THEN t1
    ELSE LET t2 == AfterExcept(DnsTier(dns)) IN
         IF t2.kind # "fallthrough" THEN t2
         ELSE Returned(HardFallback, "const")

----------------------------------------------------------------------------
(* Values of the request executor *)

Procs == 1 .. NumCallers

\* Python's None
Null == "<None>"

NoClient == <<>>

\* openai.OpenAI(max_retries=0, base_url=f"http://{ip}:8000/v1", api_key="testkey")
OpenAI(ip) == [host |-> ip, port |-> 8000, path |-> "/v1", max_retries |-> 0,
               api_key |-> "testkey"]

\* subprocess.run(["curl", ...]), line 88: line 3 binds the name subprocess to
\* asyncio.subprocess, which has no attribute run, so the call raises
\* AttributeError, always.
ProbeOutcomes == { "AttributeError" }
\* The steps after line 88 (the construction of the client, the remote call,
\* the decoding) run only when the call of line 88 returns, which it does with
\* the name subprocess bound to a module that has run (the standard subprocess
\* module).  The specifications Spec and SpecQuery add this outcome, "ok", to
\* cover those steps; SpecAsWritten does not.
ProbeOrReturn == ProbeOutcomes \cup { "ok" }

\* the function a FunctionSpec names
FuncName == "get_weather"
FuncSpecs == { Null, FuncName }

\* A JSON text is given with the tokens json's scanner reads in it: the six
\* punctuation marks, strings, integers, floats, the literals null, true,
\* false, NaN, Infinity and -Infinity, "badstr" for a string that does not end
\* or holds an invalid escape or control character, and "bad" for characters
\* that start no token.  An integer token carries the number of its digits; a
\* token that stands several times in a row is written once, with the number
\* of times.
Token(t, v) == [t |-> t, v |-> v, digits |-> 0, times |-> 1]
IntToken(v, digits) == [t |-> "int", v |-> v, digits |-> digits, times |-> 1]
Run(tok, times) == [tok EXCEPT !.times = times]
LBrace == Token("punct", "{")
RBrace == Token("punct", "}")
LBracket == Token("punct", "[")
RBracket == Token("punct", "]")
Comma == Token("punct", ",")
Colon == Token("punct", ":")
Text(text, tokens) == [text |-> text, tokens |-> tokens]

\* sys.getrecursionlimit() and sys.get_int_max_str_digits(), as Python sets them
RecursionLimit == 1000
MaxIntDigits == 4300

\* the frames on the stack when json's scanner starts, for a call of query from
\* the top level of a module: the module, query, json.loads, JSONDecoder.decode
\* and JSONDecoder.raw_decode
StackFrames == 5
\* the levels of the stack the scanner needs beyond the nesting it is in: to
\* raise a JSONDecodeError itself (the call of the class, its __init__ and a
\* call made there), and to read NaN, Infinity or -Infinity (the call of
\* parse_constant)
ErrorFrames == 3
ConstantFrames == 1

\* argument strings of a tool call
ArgsObject ==
    Text("{\"city\": \"Paris\"}",
         << LBrace, Token("str", "city"), Colon, Token("str", "Paris"), RBrace >>)
ArgsList == Text("[1]", << LBracket, IntToken("1", 1), RBracket >>)
ArgsNull == Text("null", << Token("lit", "null") >>)
ArgsMalformed == Text("{city:}", << LBrace, Token("bad", "city"), Colon, RBrace >>)
\* "[[[[...": as many opening brackets as the recursion limit, never closed
ArgsUnclosed == Text("[[[[...", << Run(LBracket, RecursionLimit) >>)
\* "[[[[...1 2": two numbers with no comma between them, in the deepest nesting
\* in which a number can still be read but an error no longer be raised
DeepestError == RecursionLimit - StackFrames - ErrorFrames
ArgsDeepMalformed ==
    Text("[[[[...1 2", << Run(LBracket, DeepestError), IntToken("1", 1), IntToken("2", 1) >>)
\* "1111...": an integer of one digit more than the limit
ArgsLongInt == Text("1111...", << IntToken("1111...", MaxIntDigits + 1) >>)

\* A decoded value: its Python type, its text when it is a scalar, its members
\* when it is a list or a dict; a member of a dict carries its key.  A list
\* whose only member is a list is written once, with the number of lists one
\* inside the other: [[[1, 2]]] is the list of 1 and 2 with times 3.
Value(type, text, items) ==
    [type |-> type, key |-> "", text |-> text, items |-> items, times |-> 1]
NoValue == Value("none", "", <<>>)
Keyed(key, v) == [v EXCEPT !.key = key]

\* v in times lists, one inside the other
Wrap(v, times) ==
    IF v.type = "list" THEN [v EXCEPT !.times = @ + times]
    ELSE [Value("list", "", << v >>) EXCEPT !.times = times]
\* the list of the items
MakeList(items) == IF Len(items) = 1 THEN Wrap(items[1], 1) ELSE Value("list", "", items)

\* the type of what a literal denotes
LiteralType(v) ==
    CASE v = "null" -> "NoneType"
      [] v \in { "true", "false" } -> "bool"
      [] v \in { "NaN", "Infinity", "-Infinity" } -> "float"
      [] OTHER -> "none"

\* the text of what a literal denotes: None has none
LiteralText(v) == IF v = "null" THEN "" ELSE v

\* d[key] = v: a key already present keeps its place and takes the new value
RECURSIVE SetItem(_, _, _)
SetItem(items, key, v) ==
    IF items = <<>> THEN << Keyed(key, v) >>
    ELSE IF Head(items).key = key THEN << Keyed(key, v) >> \o Tail(items)
    ELSE << Head(items) >> \o SetItem(Tail(items), key, v)

\* what the decoder makes of the tokens it was given: a value and the tokens
\* left, or the exception raised
Parsed(rest, val) == [ok |-> TRUE, exc |-> "none", rest |-> rest, val |-> val]
NotParsed(exc) == [ok |-> FALSE, exc |-> exc, rest |-> <<>>, val |-> NoValue]

\* the tokens after the first n of the run the tokens start with
Drop(toks, n) ==
    IF Head(toks).times > n THEN << Run(Head(toks), Head(toks).times - n) >> \o Tail(toks)
    ELSE Tail(toks)
\* the tokens after the first one
Rest(toks) == Drop(toks, 1)
\* the first token is the mark
Starts(toks, mark) == toks # <<>> /\ Head(toks).t = mark.t /\ Head(toks).v = mark.v

\* the scanner cannot use level depth of the stack: the frames in use and the
\* levels reach the recursion limit
TooDeep(depth) == StackFrames + depth >= RecursionLimit

\* the scanner raises a JSONDecodeError inside depth brackets and braces; where
\* the stack has no room for that the call raises RecursionError.  ("Expecting
\* value" is raised by raw_decode, the scanner having returned: NoValueError.)
ScanError(depth) ==
    IF TooDeep(depth + ErrorFrames) THEN NotParsed("RecursionError")
    ELSE NotParsed("JSONDecodeError")
NoValueError == NotParsed("JSONDecodeError")

\* json's decoder: the value the tokens start with, read inside depth brackets
\* and braces
RECURSIVE ParseValue(_, _)
RECURSIVE ParseElements(_, _, _)
RECURSIVE ParseMembers(_, _, _)
RECURSIVE CloseLists(_, _, _)
ParseValue(toks, depth) ==
    IF toks = <<>> THEN NoValueError
    ELSE LET tok == Head(toks) IN
         CASE tok.t = "int" ->
                  IF tok.digits > MaxIntDigits THEN NotParsed("ValueError")
                  ELSE Parsed(Rest(toks), Value("int", tok.v, <<>>))
           [] tok.t \in { "str", "float" } -> Parsed(Rest(toks), Value(tok.t, tok.v, <<>>))
           [] tok.t = "badstr" -> ScanError(depth)
           [] tok.t = "lit" /\ LiteralType(tok.v) = "float" ->
                  IF TooDeep(depth + ConstantFrames) THEN NotParsed("RecursionError")
                  ELSE Parsed(Rest(toks), Value("float", tok.v, <<>>))
           [] tok.t = "lit" /\ LiteralType(tok.v) # "none" ->
                  Parsed(Rest(toks), Value(LiteralType(tok.v), LiteralText(tok.v), <<>>))
           [] Starts(toks, LBracket) ->
                  \* tok.times brackets open one list inside the other
                  IF TooDeep(depth + tok.times) THEN NotParsed("RecursionError")
                  ELSE LET inner == depth + tok.times
                           first == IF Starts(Tail(toks), RBracket)
                                    THEN Parsed(Rest(Tail(toks)), Value("list", "", <<>>))
                                    ELSE ParseElements(Tail(toks), inner, <<>>)
                       IN  CloseLists(first, inner - 1, tok.times - 1)
           [] Starts(toks, LBrace) ->
                  IF TooDeep(depth + 1) THEN NotParsed("RecursionError")
                  ELSE IF Starts(Rest(toks), RBrace)
                  THEN Parsed(Rest(Rest(toks)), Value("dict", "", <<>>))
                  ELSE ParseMembers(Rest(toks), depth + 1, <<>>)
           [] OTHER -> NoValueError
\* the elements of a list after those of acc, up to its closing bracket
ParseElements(toks, depth, acc) ==
    LET v == ParseValue(toks, depth) IN
    IF ~v.ok THEN v
    ELSE IF Starts(v.rest, Comma) THEN ParseElements(Rest(v.rest), depth, Append(acc, v.val))
    ELSE IF Starts(v.rest, RBracket) THEN Parsed(Rest(v.rest), MakeList(Append(acc, v.val)))
    ELSE ScanError(depth)
\* r is the first element of a list that stands inside depth - 1 brackets and
\* braces and is itself the first element of a list, and so on, lists times
\* in all: the rest of these lists
CloseLists(r, depth, lists) ==
    IF ~r.ok \/ lists = 0 THEN r
    ELSE IF Starts(r.rest, RBracket)
    THEN LET n == IF Head(r.rest).times < lists THEN Head(r.rest).times ELSE lists IN
         CloseLists(Parsed(Drop(r.rest, n), Wrap(r.val, n)), depth - n, lists - n)
    ELSE IF Starts(r.rest, Comma)
    THEN CloseLists(ParseElements(Rest(r.rest), depth, << r.val >>), depth - 1, lists - 1)
    ELSE ScanError(depth)
\* the members of a dict after those of acc, up to its closing brace
ParseMembers(toks, depth, acc) ==
    IF toks = <<>> \/ Head(toks).t # "str" THEN ScanError(depth)
    ELSE IF ~Starts(Rest(toks), Colon) THEN ScanError(depth)
    ELSE LET v == ParseValue(Rest(Rest(toks)), depth) IN
         IF ~v.ok THEN v
         ELSE LET items == SetItem(acc, Head(toks).v, v.val) IN
              IF Starts(v.rest, Comma) THEN ParseMembers(Rest(v.rest), depth, items)
              ELSE IF Starts(v.rest, RBrace)
              THEN Parsed(Rest(v.rest), Value("dict", "", items))
              ELSE ScanError(depth)

\* json.loads(s): the decoded value with its Python type, or the exception
\* raised: JSONDecodeError when no value is read or text follows it, ValueError
\* for an integer of too many digits, RecursionError when the stack has no
\* room for the nesting, for a constant or for the error to raise
JsonLoads(s) ==
    LET r == ParseValue(s.tokens, 0) IN
    IF ~r.ok THEN [ok |-> FALSE, exc |-> r.exc, type |-> "none", val |-> NoValue]
    ELSE IF r.rest # <<>>
    THEN [ok |-> FALSE, exc |-> "JSONDecodeError", type |-> "none", val |-> NoValue]
    ELSE [ok |-> TRUE, exc |-> "none", type |-> r.val.type, val |-> r.val]

ToolCall(name, arguments) == [name |-> name, arguments |-> arguments]
Choice(content, tool_calls) == [content |-> content, tool_calls |-> tool_calls]
Completion(choices, usage) == [choices |-> choices, usage |-> usage]

\* completion.usage when present
Usage == [present |-> TRUE, prompt_tokens |-> 7, completion_tokens |-> 5]
\* completion.usage is None
NoUsage == [present |-> FALSE, prompt_tokens |-> 0, completion_tokens |-> 0]

\* the responses the endpoint may give.  tool_calls is <<>> when the message has
\* none (None and [] are both false in the assertion of line 126).
Responses ==
    { Completion(<<Choice("hello", <<>>)>>, Usage),
      Completion(<<Choice(Null, <<>>)>>, Usage),
      Completion(<<Choice(Null, <<ToolCall(FuncName, ArgsObject)>>)>>, Usage),
      Completion(<<Choice("hello", <<ToolCall(FuncName, ArgsMalformed)>>)>>, Usage),
      Completion(<<Choice(Null, <<ToolCall(FuncName, ArgsList)>>)>>, Usage),
      Completion(<<Choice(Null, <<ToolCall(FuncName, ArgsNull)>>)>>, Usage),
      Completion(<<Choice(Null, <<ToolCall(FuncName, ArgsUnclosed)>>)>>, Usage),
      Completion(<<Choice(Null, <<ToolCall(FuncName, ArgsDeepMalformed)>>)>>, Usage),
      Completion(<<Choice(Null, <<ToolCall(FuncName, ArgsLongInt)>>)>>, Usage),
      Completion(<<Choice(Null, <<ToolCall("other_fn", ArgsObject)>>)>>, Usage),
      Completion(<<>>, Usage),
      Completion(<<Choice("hello", <<>>)>>, NoUsage) }

\* exception classes of the openai package and their base classes
Base(c) ==
    CASE c = "APITimeoutError" -> "APIConnectionError"
      [] c = "APIConnectionError" -> "APIError"
      [] c \in { "RateLimitError", "InternalServerError", "AuthenticationError",
                 "BadRequestError" } -> "APIStatusError"
      [] c = "APIStatusError" -> "APIError"
      [] c = "APIError" -> "OpenAIError"
      [] OTHER -> "Exception"

RECURSIVE IsSubclass(_, _)
IsSubclass(c, w) ==
    IF c = w THEN TRUE
    ELSE IF c = "Exception" THEN FALSE
    ELSE IsSubclass(Base(c), w)

\* the failures a remote call may end in
RemoteFailures == { "RateLimitError", "APIConnectionError", "APITimeoutError",
                    "InternalServerError", "AuthenticationError", "BadRequestError" }

TimeoutExceptionsAndAuth ==
    { "RateLimitError", "APIConnectionError", "APITimeoutError", "InternalServerError",
      "AuthenticationError" }
OPENAI_TIMEOUT_EXCEPTIONS ==
    { "RateLimitError", "APIConnectionError", "APITimeoutError", "InternalServerError" }

\* "except retry_exceptions": the raised class derives from one of them
IsInstance(c, classes) == \E w \in classes : IsSubclass(c, w)

----------------------------------------------------------------------------
(* Request assembly, lines 103-110 of query *)

\* The value of a keyword argument: None, a scalar or a list, with its items.
NoneValue == [kind |-> "None", items |-> <<>>]
Scalar(x) == [kind |-> "scalar", items |-> <<x>>]
List(xs) == [kind |-> "list", items |-> xs]

\* the keyword arguments a caller passes to query as **model_kwargs
NoKwargs == [k \in {} |-> NoneValue]
ModelKwargs ==
    { NoKwargs,
      [k \in { "temperature", "max_tokens" } |->
           IF k = "temperature" THEN NoneValue ELSE Scalar("100")],
      [k \in { "model", "temperature" } |->
           IF k = "model" THEN Scalar("gpt-4") ELSE Scalar("0")],
      [k \in { "tools", "tool_choice" } |->
           IF k = "tools" THEN List(<<"caller_tool_a", "caller_tool_b">>)
           ELSE Scalar("auto")],
      [k \in { "temperature", "tools", "tool_choice" } |->
           IF k = "temperature" THEN Scalar("0.5") ELSE NoneValue] }

\* funcy.notnone
NotNone(v) == v.kind # "None"

\* line 103, funcy.select_values(notnone, model_kwargs): the items whose value
\* passes the predicate
SelectTruthy(kw) ==
    [k \in { k \in DOMAIN kw : kw[k].items # <<>> /\ kw[k].items # <<"0">> } |-> kw[k]]
SelectValues(kw) == [k \in { k \in DOMAIN kw : NotNone(kw[k]) } |-> kw[k]]

\* FunctionSpec.as_openai_tool_dict and FunctionSpec.openai_tool_choice_dict
\* (aide.backend.utils): the tool schema of the function and the directive that
\* forces the model to call it
as_openai_tool_dict(fs) == IF fs = FuncName THEN "tool get_weather" ELSE "tool"
openai_tool_choice_dict(fs) ==
    Scalar(IF fs = FuncName THEN "function get_weather" ELSE "function")

\* lines 103-110: the keyword arguments of the remote call
BuildRequestKeepingCaller(kw, fs) ==
    LET filtered == SelectValues(kw) IN
    IF fs # Null
    THEN [k \in DOMAIN filtered \cup { "tools", "tool_choice" } |->
            IF k \in DOMAIN filtered THEN filtered[k]
            ELSE IF k = "tools" THEN List(<<as_openai_tool_dict(fs)>>)
            ELSE openai_tool_choice_dict(fs)]
    ELSE filtered
BuildRequest(kw, fs) ==
    LET filtered == SelectValues(kw) IN
    IF fs # Null
    THEN [k \in DOMAIN filtered \cup { "tools", "tool_choice" } |->
            IF k = "tools" THEN List(<<as_openai_tool_dict(fs)>>)
            ELSE IF k = "tool_choice" THEN openai_tool_choice_dict(fs)
            ELSE filtered[k]]
    ELSE filtered

----------------------------------------------------------------------------
(* backoff_create (aide.backend.utils) *)

\* what backoff_create does after an attempt, the tries-th of the call, raised exc
BackoffUnbounded(exc, retry_exceptions, tries) ==
    IF ~IsInstance(exc, retry_exceptions) THEN "propagate" ELSE "retry"
BackoffDecision(exc, retry_exceptions, tries) ==
    IF ~IsInstance(exc, retry_exceptions) THEN "propagate"
    ELSE IF tries >= MaxTries THEN "giveup"
    ELSE "retry"

\* the delays before attempt tries + 1: exponential in tries, plus a random jitter
BackoffNoDelay(tries, jitters) == { 0 }
BackoffDelays(tries, jitters) == { 2 ^ (tries - 1) + j : j \in jitters }

Jitters == 0 .. MaxJitter

----------------------------------------------------------------------------
(* Response decoding, lines 121-149 of query *)

NoOutput == [type |-> "none", val |-> NoValue]
NoOutcome == [kind |-> "none", output |-> NoOutput, exc |-> "none", logged |-> Null,
              decoded |-> FALSE, req_time |-> 0, in_tokens |-> 0, out_tokens |-> 0,
              info |-> Null]

QueryRaised(exc, logged, decoded) ==
    [kind |-> "raise", output |-> NoOutput, exc |-> exc, logged |-> logged,
     decoded |-> decoded, req_time |-> 0, in_tokens |-> 0, out_tokens |-> 0,
     info |-> Null]

QueryReturned(output, decoded, req_time, usage) ==
    [kind |-> "return", output |-> output, exc |-> "none", logged |-> Null,
     decoded |-> decoded, req_time |-> req_time, in_tokens |-> usage.prompt_tokens,
     out_tokens |-> usage.completion_tokens, info |-> "fingerprint,model,created"]

\* choice.message.content as the output: text, or None
ContentOutput(content) ==
    IF content = Null THEN [type |-> "NoneType", val |-> Value("NoneType", "", <<>>)]
    ELSE [type |-> "str", val |-> Value("str", content, <<>>)]

\* the two assertions of lines 126-131
ToolCallsOnlyPresent(tool_calls, fs) == tool_calls # <<>>
ToolCallsAccepted(tool_calls, fs) == tool_calls # <<>> /\ tool_calls[1].name = fs

\* lines 140-149: the usage fields are read, then the tuple is returned
Finalize(output, decoded, req_time, usage) ==
    IF ~usage.present THEN QueryRaised("AttributeError", Null, decoded)
    ELSE QueryReturned(output, decoded, req_time, usage)

\* lines 132-138: json.loads, and the except clause, which logs and re-raises
\* a JSONDecodeError and lets every other exception pass
DecodeArguments(arguments, req_time, usage) ==
    LET d == JsonLoads(arguments) IN
    IF d.ok THEN Finalize([type |-> d.type, val |-> d.val], TRUE, req_time, usage)
    ELSE IF d.exc = "JSONDecodeError" THEN QueryRaised(d.exc, arguments.text, TRUE)
    ELSE QueryRaised(d.exc, Null, TRUE)

\* lines 121-149
DecodeResponse(fs, c, req_time) ==
    IF c.choices = <<>> THEN QueryRaised("IndexError", Null, FALSE)
    ELSE LET message == c.choices[1] IN
         IF fs = Null
         THEN Finalize(ContentOutput(message.content), FALSE, req_time, c.usage)
         ELSE IF ~ToolCallsAccepted(message.tool_calls, fs)
         THEN QueryRaised("AssertionError", Null, FALSE)
         ELSE DecodeArguments(message.tool_calls[1].arguments, req_time, c.usage)

----------------------------------------------------------------------------
(* State *)

NotCalled == [kind |-> "notcalled", ip |-> <<>>, tier |-> "none", exc |-> "none"]

envVars == << openOutcome, routeLines, dnsOutcome >>
onceVars == << done, lockHolder >>
histVars == << resolverRuns, constructions, observed, failedQueries >>
requestVars == << kwargs, request, sent >>
localVars == << func_spec, host, elapsed, calls, sleeps, slept, lastFailure, completion, outcome,
                kwargs, request, sent >>
vars == << openOutcome, routeLines, dnsOutcome, resolved, done, lockHolder, client,
           resolverRuns, constructions, observed, queries, pc, func_spec, host,
           elapsed, calls, sleeps, slept, lastFailure, completion, outcome,
           kwargs, request, sent, failedQueries >>

NoCompletion == Completion(<<>>, NoUsage)

InitEnv ==
    /\ openOutcome \in OpenOutcomes
    /\ routeLines \in RouteFiles
    /\ (openOutcome # "ok" => routeLines = <<>>)
    /\ dnsOutcome \in DnsOutcomes

InitProcess ==
    /\ done = FALSE
    /\ lockHolder = 0
    /\ client = NoClient
    /\ resolverRuns = 0
    /\ constructions = 0
    /\ observed = {}
    /\ queries = 0
    /\ pc = [p \in Procs |-> "idle"]
    /\ func_spec = [p \in Procs |-> Null]
    /\ host = [p \in Procs |-> <<>>]
    /\ elapsed = [p \in Procs |-> 0]
    /\ calls = [p \in Procs |-> 0]
    /\ sleeps = [p \in Procs |-> 0]
    /\ slept = [p \in Procs |-> 0]
    /\ lastFailure = [p \in Procs |-> Null]
    /\ completion = [p \in Procs |-> NoCompletion]
    /\ outcome = [p \in Procs |-> NoOutcome]
    /\ kwargs = [p \in Procs |-> NoKwargs]
    /\ request = [p \in Procs |-> NoKwargs]
    /\ sent = [p \in Procs |-> {}]
    /\ failedQueries = 0

----------------------------------------------------------------------------
(* Stand-alone resolver calls *)

InitResolver ==
    /\ InitEnv
    /\ InitProcess
    /\ resolved = NotCalled

ResolveHost ==
    /\ resolved = NotCalled
    /\ resolved' = get_docker_host_ip(openOutcome, routeLines, dnsOutcome)
    /\ UNCHANGED << envVars, onceVars, histVars, localVars, client, queries, pc >>

NextResolver == ResolveHost

SpecResolver == InitResolver /\ [][NextResolver]_vars

----------------------------------------------------------------------------
(* query and _setup_openai_client *)

\* the environments of the executor runs: one per tier of the resolver
SampleRouteFiles ==
    { <<Header, <<Iface, NetDest, ZeroDest, FlagsU>>, <<Iface, ZeroDest, GwA, FlagsUG>>>>,
      <<Header, <<Iface, NetDest, ZeroDest, FlagsU>>>> }

Init ==
    /\ openOutcome = "ok"
    /\ routeLines \in SampleRouteFiles
    /\ dnsOutcome \in DnsOutcomes
    /\ InitProcess
    /\ resolved = NotCalled

\* Time is kept per caller, relative to its t0: elapsed[q] is time.time() - t0 of
\* caller q while q is between line 112, where it reads t0, and line 119, where
\* it computes req_time, and the value of req_time afterwards.
InTimedWindow(q) == pc[q] \in { "create", "attempt", "backoff" }

\* the time a remote call, a resolution, a probe or the decoding of a response
\* takes, in units of the clock
CallTime == 1

\* d units of time pass
Advance(d) == [q \in Procs |-> IF InTimedWindow(q) THEN elapsed[q] + d ELSE elapsed[q]]

\* line 95: a caller calls query
Call(p, specs, options) ==
    /\ pc[p] = "idle"
    /\ queries < MaxQueries
    /\ queries' = queries + 1
    /\ \E fs \in specs : func_spec' = [func_spec EXCEPT ![p] = fs]
    /\ \E kw \in options : kwargs' = [kwargs EXCEPT ![p] = kw]
    /\ pc' = [pc EXCEPT ![p] = "setup"]
    /\ UNCHANGED << envVars, resolved, onceVars, histVars, client, host, elapsed, calls,
                    sleeps, slept, lastFailure, completion, outcome, request, sent >>

\* funcy.once, "with lock": the wrapper waits for the lock
LockNeverHeld(p) == TRUE
LockFree(p) == lockHolder = 0

\* funcy.once, "if values not in done": the function has not been entered yet
RunEveryTime(p) == TRUE
RunUntilSuccess(p) == client = NoClient
FirstCall(p) == done = FALSE

\* line 102, first call: the wrapper takes the lock, records the call and enters
\* _setup_openai_client, keeping the lock
OnceRun(p) ==
    /\ pc[p] = "setup"
    /\ LockFree(p)
    /\ FirstCall(p)
    /\ done' = TRUE
    /\ lockHolder' = p
    /\ pc' = [pc EXCEPT ![p] = "resolve"]
    /\ UNCHANGED << envVars, resolved, histVars, client, queries, localVars >>

\* line 102, later calls: the wrapper takes the lock, finds the call recorded,
\* releases the lock and returns None
OnceSkip(p) ==
    /\ pc[p] = "setup"
    /\ LockFree(p)
    /\ ~FirstCall(p)
    /\ pc' = [pc EXCEPT ![p] = "prepare"]
    /\ UNCHANGED << envVars, resolved, onceVars, histVars, client, queries, localVars >>

\* funcy.once, the end of "with lock": leaving the wrapper, by return or by
\* exception, releases the lock
HeldUntilQueryEnds(p) == lockHolder
Released(p) == IF lockHolder = p THEN 0 ELSE lockHolder

\* an exception leaves _setup_openai_client: the lock is released and query raises
SetupRaises(p, exc) ==
    /\ lockHolder' = Released(p)
    /\ pc' = [pc EXCEPT ![p] = "raised"]
    /\ outcome' = [outcome EXCEPT ![p] = QueryRaised(exc, Null, FALSE)]

\* line 87
Resolve(p) ==
    /\ pc[p] = "resolve"
    /\ resolverRuns' = resolverRuns + 1
    /\ elapsed' = Advance(CallTime)
    /\ LET r == get_docker_host_ip(openOutcome, routeLines, dnsOutcome) IN
       IF r.kind = "return"
       THEN /\ host' = [host EXCEPT ![p] = r.ip]
            /\ pc' = [pc EXCEPT ![p] = "probe"]
            /\ UNCHANGED << lockHolder, outcome >>
       ELSE /\ SetupRaises(p, r.exc)
            /\ UNCHANGED host
    /\ UNCHANGED << envVars, resolved, done, client, constructions, observed,
                    failedQueries, queries, func_spec, calls, sleeps, slept, lastFailure,
                    completion, requestVars >>

\* lines 88-90
Probe(p, outcomes) ==
    /\ pc[p] = "probe"
    /\ elapsed' = Advance(CallTime)
    /\ \E result \in outcomes :
         IF result = "ok"
         THEN /\ pc' = [pc EXCEPT ![p] = "construct"]
              /\ UNCHANGED << lockHolder, outcome >>
         ELSE SetupRaises(p, result)
    /\ UNCHANGED << envVars, resolved, done, client, histVars, queries, func_spec, host,
                    calls, sleeps, slept, lastFailure, completion, requestVars >>

\* line 91, and the return through the wrapper, which releases the lock
Construct(p) ==
    /\ pc[p] = "construct"
    /\ client' = OpenAI(host[p])
    /\ constructions' = constructions + 1
    /\ lockHolder' = Released(p)
    /\ pc' = [pc EXCEPT ![p] = "prepare"]
    /\ UNCHANGED << envVars, resolved, done, resolverRuns, observed, failedQueries,
                    queries, localVars >>

\* line 114: _client.chat.completions.create can be evaluated (None has no chat)
HasCreateAlways(c) == TRUE
HasCreate(c) == c # NoClient

\* lines 103-112: the request is assembled and t0 is read
Prepare(p) ==
    /\ pc[p] = "prepare"
    /\ request' = [request EXCEPT ![p] = BuildRequest(kwargs[p], func_spec[p])]
    /\ elapsed' = [elapsed EXCEPT ![p] = 0]
    /\ pc' = [pc EXCEPT ![p] = "create"]
    /\ UNCHANGED << envVars, resolved, onceVars, client, histVars, queries, func_spec,
                    host, calls, sleeps, slept, lastFailure, completion, outcome,
                    kwargs, sent >>

\* lines 113-114: the first argument of backoff_create is evaluated, which
\* reads _client and raises AttributeError when it is None
Create(p) ==
    /\ pc[p] = "create"
    /\ IF HasCreate(client)
       THEN /\ observed' = observed \cup { client }
            /\ pc' = [pc EXCEPT ![p] = "attempt"]
            /\ UNCHANGED outcome
       ELSE /\ pc' = [pc EXCEPT ![p] = "raised"]
            /\ outcome' = [outcome EXCEPT ![p] = QueryRaised("AttributeError", Null, FALSE)]
            /\ UNCHANGED observed
    /\ UNCHANGED << envVars, resolved, onceVars, client, resolverRuns, constructions,
                    failedQueries, queries, func_spec, host, elapsed, calls, sleeps,
                    slept, lastFailure, completion, requestVars >>

\* lines 113-119, one attempt of backoff_create: the remote call returns a
\* response, and req_time is taken, or it raises
Attempt(p, responses, failures, duration) ==
    /\ pc[p] = "attempt"
    /\ calls' = [calls EXCEPT ![p] = @ + 1]
    /\ sent' = [sent EXCEPT ![p] = @ \cup { request[p] }]
    /\ elapsed' = Advance(duration)
    /\ \/ \E r \in responses :
            /\ completion' = [completion EXCEPT ![p] = r]
            /\ lastFailure' = [lastFailure EXCEPT ![p] = Null]
            /\ pc' = [pc EXCEPT ![p] = "decode"]
            /\ UNCHANGED outcome
       \/ \E exc \in failures :
            /\ lastFailure' = [lastFailure EXCEPT ![p] = exc]
            /\ LET d == BackoffDecision(exc, OPENAI_TIMEOUT_EXCEPTIONS, calls[p] + 1) IN
               CASE d = "retry" ->
                      /\ pc' = [pc EXCEPT ![p] = "backoff"]
                      /\ UNCHANGED outcome
                 [] d = "giveup" ->
                      /\ pc' = [pc EXCEPT ![p] = "raised"]
                      /\ outcome' = [outcome EXCEPT ![p] =
                                        QueryRaised("RetryExhausted", Null, FALSE)]
                 [] OTHER ->
                      /\ pc' = [pc EXCEPT ![p] = "raised"]
                      /\ outcome' = [outcome EXCEPT ![p] = QueryRaised(exc, Null, FALSE)]
            /\ UNCHANGED completion
    /\ UNCHANGED << envVars, resolved, onceVars, client, histVars, queries, func_spec,
                    host, sleeps, slept, kwargs, request >>

\* backoff_create sleeps before the next attempt
Sleep(p, delays) ==
    /\ pc[p] = "backoff"
    /\ \E d \in delays :
         /\ elapsed' = Advance(d)
         /\ slept' = [slept EXCEPT ![p] = @ + d]
    /\ sleeps' = [sleeps EXCEPT ![p] = @ + 1]
    /\ pc' = [pc EXCEPT ![p] = "attempt"]
    /\ UNCHANGED << envVars, resolved, onceVars, client, histVars, queries, func_spec,
                    host, calls, lastFailure, completion, outcome, requestVars >>

\* lines 119-149: req_time is computed, then the response is decoded, which
\* takes duration units of time
Decode(p, duration) ==
    /\ pc[p] = "decode"
    /\ elapsed' = Advance(duration)
    /\ LET r == DecodeResponse(func_spec[p], completion[p], elapsed'[p]) IN
       /\ outcome' = [outcome EXCEPT ![p] = r]
       /\ pc' = [pc EXCEPT ![p] = IF r.kind = "return" THEN "returned" ELSE "raised"]
    /\ UNCHANGED << envVars, resolved, onceVars, client, histVars, queries,
                    func_spec, host, calls, sleeps, slept, lastFailure,
                    completion, requestVars >>

\* the caller has its result or failure; its next call of query starts afresh
Finish(p) ==
    /\ pc[p] \in { "returned", "raised" }
    /\ pc' = [pc EXCEPT ![p] = "idle"]
    /\ func_spec' = [func_spec EXCEPT ![p] = Null]
    /\ host' = [host EXCEPT ![p] = <<>>]
    /\ elapsed' = [elapsed EXCEPT ![p] = 0]
    /\ calls' = [calls EXCEPT ![p] = 0]
    /\ sleeps' = [sleeps EXCEPT ![p] = 0]
    /\ slept' = [slept EXCEPT ![p] = 0]
    /\ lastFailure' = [lastFailure EXCEPT ![p] = Null]
    /\ completion' = [completion EXCEPT ![p] = NoCompletion]
    /\ outcome' = [outcome EXCEPT ![p] = NoOutcome]
    /\ kwargs' = [kwargs EXCEPT ![p] = NoKwargs]
    /\ request' = [request EXCEPT ![p] = NoKwargs]
    /\ sent' = [sent EXCEPT ![p] = {}]
    /\ failedQueries' = IF pc[p] = "raised" THEN failedQueries + 1 ELSE failedQueries
    /\ UNCHANGED << envVars, resolved, onceVars, client, resolverRuns, constructions,
                    observed, queries >>

\* Concurrent callers.  What the endpoint answers is drawn from a part of the
\* responses and failures: one free-text response, one transient and one
\* non-transient failure.
FewSpecs == { Null }
FewOptions == { NoKwargs }
FewResponses == { Completion(<<Choice("hello", <<>>)>>, Usage) }
FewFailures == { "RateLimitError", "AuthenticationError" }
\* The concurrent runs do not observe the clock: a remote call and a sleep last
\* less than its resolution (a duration of 0).

Next ==
    \E p \in Procs :
        \/ Call(p, FewSpecs, FewOptions)
        \/ OnceRun(p)
        \/ OnceSkip(p)
        \/ Resolve(p)
        \/ Probe(p, ProbeOrReturn)
        \/ Construct(p)
        \/ Prepare(p)
        \/ Create(p)
        \/ Attempt(p, FewResponses, FewFailures, 0)
        \/ Sleep(p, { 0 })
        \/ Decode(p, 0)
        \/ Finish(p)

Spec == Init /\ [][Next]_vars

\* One caller calling query again and again, with every function spec, response
\* and failure.
NextQuery ==
    \/ Call(1, FuncSpecs, ModelKwargs)
    \/ OnceRun(1)
    \/ OnceSkip(1)
    \/ Resolve(1)
    \/ Probe(1, ProbeOrReturn)
    \/ Construct(1)
    \/ Prepare(1)
    \/ Create(1)
    \/ Attempt(1, Responses, RemoteFailures, CallTime)
    \/ Sleep(1, BackoffDelays(calls[1], Jitters))
    \/ Decode(1, CallTime)
    \/ Finish(1)

SpecQuery == Init /\ [][NextQuery]_vars

\* The caller's thread keeps running: each step of query ends (the remote call
\* returns or raises, the sleep ends).
FairSpecQuery == SpecQuery /\ WF_vars(NextQuery)

\* The module as written: one caller calling query again and again.  The call
\* of line 88 raises, so the client is never constructed and no query gets
\* past line 114.
NextAsWritten ==
    \/ Call(1, FuncSpecs, ModelKwargs)
    \/ OnceRun(1)
    \/ OnceSkip(1)
    \/ Resolve(1)
    \/ Probe(1, ProbeOutcomes)
    \/ Prepare(1)
    \/ Create(1)
    \/ Finish(1)

SpecAsWritten == Init /\ [][NextAsWritten]_vars

\* The decoding of a response, lines 119-149, on its own: applied to every
\* function spec and every response the endpoint may give, after a remote call
\* that took any of the times below.  Only func_spec, the response and the time
\* are read by these lines.
RemoteCallTimes == CallTime .. MaxTries * CallTime

InitDecode ==
    /\ openOutcome = "ok"
    /\ routeLines = <<>>
    /\ dnsOutcome = <<>>
    /\ resolved = NotCalled
    /\ done = FALSE
    /\ lockHolder = 0
    /\ client = NoClient
    /\ resolverRuns = 0
    /\ constructions = 0
    /\ observed = {}
    /\ queries = 0
    /\ pc = [p \in Procs |-> IF p = 1 THEN "decode" ELSE "idle"]
    /\ func_spec \in { [p \in Procs |-> IF p = 1 THEN fs ELSE Null] : fs \in FuncSpecs }
    /\ host = [p \in Procs |-> <<>>]
    /\ elapsed \in { [p \in Procs |-> IF p = 1 THEN t ELSE 0] : t \in RemoteCallTimes }
    /\ calls = [p \in Procs |-> 0]
    /\ sleeps = [p \in Procs |-> 0]
    /\ slept = [p \in Procs |-> 0]
    /\ lastFailure = [p \in Procs |-> Null]
    /\ completion \in { [p \in Procs |-> IF p = 1 THEN r ELSE NoCompletion] : r \in Responses }
    /\ outcome = [p \in Procs |-> NoOutcome]
    /\ kwargs = [p \in Procs |-> NoKwargs]
    /\ request = [p \in Procs |-> NoKwargs]
    /\ sent = [p \in Procs |-> {}]
    /\ failedQueries = 0

NextDecode == Decode(1, 0)

SpecDecode == InitDecode /\ [][NextDecode]_vars

----------------------------------------------------------------------------
(* Properties of get_docker_host_ip, checked under SpecResolver *)

IsAddress(ip) == Len(ip) = 4 /\ \A i \in 1 .. 4 : ip[i] \in 0 .. 255

TableRows == SkipHeader(routeLines)

\* a row with destination 00000000 whose flags have the up and gateway bits
Qualifying(row) ==
    /\ Len(row) >= 4
    /\ row[2] = ZeroDest
    /\ IsHex(row[4])
    /\ BothFlags(ParseHex(row[4]))

QualifyingRows == { i \in DOMAIN TableRows : Qualifying(TableRows[i]) }

FirstQualifying == CHOOSE i \in QualifyingRows : \A j \in QualifyingRows : i <= j

\* the address an 8-digit gateway field stands for: its byte pairs, last pair first
GatewayAddress(g) ==
    << 16 * g[7] + g[8], 16 * g[5] + g[6], 16 * g[3] + g[4], 16 * g[1] + g[2] >>

WellFormedGateway(g) == Len(g) = 8 /\ \A i \in DOMAIN g : IsDigit(g[i])

\* C3: get_docker_host_ip never raises and always returns an address, whatever
\* the routing table (missing, unreadable, malformed, without or with a
\* qualifying row) and whether or not the alias resolves.
C3_NeverRaises ==
    resolved # NotCalled => resolved.kind = "return" /\ IsAddress(resolved.ip)

\* C3 witness: the table tier raised (a malformed row), DNS failed too, and the
\* call returned.
C3_Witness ==
    /\ resolved # NotCalled
    /\ openOutcome = "ok"
    /\ RouteTier(openOutcome, routeLines).kind = "raise"
    /\ DnsFailed(dnsOutcome)
    /\ resolved.kind = "return"

\* C4 (as claimed): if the table has a row with destination 00000000 and both
\* flag bits, the result is the gateway of the first such row, whatever rows
\* precede it.
C4_FirstQualifyingRowWins ==
    ( /\ resolved # NotCalled
      /\ openOutcome = "ok"
      /\ QualifyingRows # {}
      /\ WellFormedGateway(TableRows[FirstQualifying][3]) )
    => resolved = Returned(GatewayAddress(TableRows[FirstQualifying][3]), "route")

\* the table cannot be read or parsed, or has no qualifying row
TableUnusable ==
    \/ openOutcome # "ok"
    \/ QualifyingRows = {}
    \/ RouteTier(openOutcome, routeLines).kind = "raise"

\* C5: when the table tier gives no address, the result is the address the alias
\* resolves to if it resolves, and 172.17.0.1 exactly when it does not; a table
\* tier that gives an address is not overridden by DNS.
C5_FallbackOrder ==
    resolved # NotCalled =>
        /\ TableUnusable /\ ~DnsFailed(dnsOutcome) => resolved = Returned(dnsOutcome, "dns")
        /\ TableUnusable /\ DnsFailed(dnsOutcome)
               => resolved = Returned(<<172, 17, 0, 1>>, "const")
        /\ resolved.tier = "const" <=> (TableUnusable /\ DnsFailed(dnsOutcome))
        /\ ~TableUnusable => resolved.tier = "route"

\* C5 witness: a table that cannot be parsed, DNS failing, and the constant returned.
C5_Witness ==
    /\ resolved # NotCalled
    /\ openOutcome = "ok"
    /\ QualifyingRows # {}
    /\ TableUnusable
    /\ DnsFailed(dnsOutcome)
    /\ resolved.ip = <<172, 17, 0, 1>>

----------------------------------------------------------------------------
(* Properties of the initialisation, checked under Spec *)

\* the caller's call of _setup_openai_client (line 102) is over
PassedInit(p) ==
    pc[p] \in { "prepare", "create", "attempt", "backoff", "decode", "returned", "raised" }

\* C1 (as claimed): once a caller's initialisation step is over, the resolver has
\* run exactly once and the client has been constructed exactly once, and all
\* callers observe one Endpoint.
C1_ExactlyOnce ==
    /\ resolverRuns <= 1
    /\ constructions <= 1
    /\ Cardinality(observed) <= 1
    /\ (\E p \in Procs : PassedInit(p)) => resolverRuns = 1 /\ constructions = 1

\* a remote call of the caller's query is in progress or has been made
InRemoteCall(p) == pc[p] \in { "attempt", "backoff", "decode" } \/ calls[p] > 0

\* C2: whenever a caller is at or past the remote call, the client handle is set:
\* construction has completed.
C2_RemoteCallAfterConstruction ==
    \A p \in Procs : InRemoteCall(p) =>
        /\ client # NoClient
        /\ constructions = 1
        /\ \A q \in Procs : pc[q] \notin { "resolve", "probe", "construct" }

\* C2 witness: two callers are at the remote call at once.
C2_Witness ==
    \E p, q \in Procs : p # q /\ pc[p] = "attempt" /\ pc[q] = "attempt"

----------------------------------------------------------------------------
(* Properties of query, checked under SpecQuery *)

\* the first choice of the response the caller's remote call returned
FirstChoice(p) == completion[p].choices[1]

Decoding(p) == pc[p] \in { "returned", "raised" } /\ completion[p].choices # <<>>

\* {"city": "Paris"} and [1] as Python values
CityParis ==
    [type |-> "dict", key |-> "", text |-> "", times |-> 1,
     items |-> << [type |-> "str", key |-> "city", text |-> "Paris", times |-> 1,
                   items |-> <<>>] >>]
ListOfOne ==
    [type |-> "list", key |-> "", text |-> "", times |-> 1,
     items |-> << [type |-> "int", key |-> "", text |-> "1", times |-> 1,
                   items |-> <<>>] >>]

NoCallAfter(exc) ==
    \A p \in Procs : outcome[p].exc = exc => calls'[p] <= calls[p] /\ sleeps'[p] <= sleeps[p]

C7_Violation ==
    \A p \in Procs :
        ( /\ Decoding(p)
          /\ func_spec[p] # Null
          /\ \/ FirstChoice(p).tool_calls = <<>>
             \/ FirstChoice(p).tool_calls[1].name # func_spec[p] )
        => /\ pc[p] = "raised"
           /\ outcome[p].exc = "AssertionError"
           /\ outcome[p].output = NoOutput
           /\ ~outcome[p].decoded

\* C7: with a FunctionSpec, a response without a tool call, or whose first tool
\* call has another name, ends the query in an assertion failure: no result is
\* returned and no remote call follows.
C7_ContractViolationFatal == []C7_Violation /\ [][NoCallAfter("AssertionError")]_vars

\* C7 witness: the query failed on a tool call named other_fn.
C7_Witness ==
    \E p \in Procs :
        /\ pc[p] = "raised"
        /\ outcome[p].exc = "AssertionError"
        /\ completion[p].choices # <<>>
        /\ FirstChoice(p).tool_calls # <<>>
        /\ FirstChoice(p).tool_calls[1].name = "other_fn"

\* the argument strings that are not JSON texts: "{city:}", brackets that
\* are never closed, and numbers with no comma between them
Unparseable == { ArgsMalformed, ArgsUnclosed, ArgsDeepMalformed }

C8_Failure ==
    \A p \in Procs :
        ( /\ Decoding(p)
          /\ func_spec[p] # Null
          /\ FirstChoice(p).tool_calls # <<>>
          /\ FirstChoice(p).tool_calls[1].name = func_spec[p]
          /\ FirstChoice(p).tool_calls[1].arguments \in Unparseable )
        => /\ pc[p] = "raised"
           /\ outcome[p].exc = "JSONDecodeError"
           /\ outcome[p].logged = FirstChoice(p).tool_calls[1].arguments.text
           /\ outcome[p].output = NoOutput

Whitelisted ==
    { "RateLimitError", "APIConnectionError", "APITimeoutError", "InternalServerError" }

C9_Retry ==
    \A p \in Procs :
        /\ pc[p] = "backoff" => lastFailure[p] \in Whitelisted
        /\ sleeps[p] <= calls[p]
        /\ (pc[p] = "raised" /\ lastFailure[p] \notin Whitelisted \cup { Null }) =>
               /\ outcome[p].exc = lastFailure[p]
               /\ sleeps[p] = calls[p] - 1

C9_Final ==
    \A p \in Procs :
        (pc[p] = "raised" /\ lastFailure[p] \notin Whitelisted \cup { Null })
        => calls'[p] <= calls[p] /\ sleeps'[p] <= sleeps[p]

\* C9: a backoff and a further attempt follow only a failure of one of the four
\* listed classes; a failure of another class, on any attempt, is what query
\* raises, with no sleep and no attempt after it.
C9_RetryOnlyWhitelisted == []C9_Retry /\ [][C9_Final]_vars

\* C9 witness: a failure outside the list on the second attempt was raised.
C9_Witness ==
    \E p \in Procs :
        /\ pc[p] = "raised"
        /\ outcome[p].exc = "AuthenticationError"
        /\ calls[p] = 2
        /\ sleeps[p] = 1

C10_Bounded ==
    \A p \in Procs :
        /\ calls[p] <= MaxTries
        /\ pc[p] = "backoff" => calls[p] < MaxTries
        /\ (pc[p] = "raised" /\ lastFailure[p] \in Whitelisted) =>
               /\ outcome[p].exc = "RetryExhausted"
               /\ calls[p] = MaxTries

\* C10: a query makes at most MaxTries attempts; when all fail with listed
\* failures it raises the retry-exhausted failure; and a query that has reached
\* the remote call ends with a result or a failure.
C10_AttemptsBounded ==
    /\ []C10_Bounded
    /\ (pc[1] = "attempt") ~> (pc[1] \in { "returned", "raised" })

\* C10 witness: every attempt failed with a listed failure and query gave up.
C10_Witness ==
    \E p \in Procs :
        /\ pc[p] = "raised"
        /\ outcome[p].exc = "RetryExhausted"
        /\ calls[p] = MaxTries
        /\ sleeps[p] = MaxTries - 1

----------------------------------------------------------------------------
(* Retry then success, timing, failure kinds *)

\* The output a returned query must carry, written out for each response:
\* without a function spec the content of the first choice, a text or None;
\* with one, the value its first tool call's argument string denotes, for the
\* argument strings that denote one.
NoneOutput == [type |-> "NoneType", val |-> [NoValue EXCEPT !.type = "NoneType"]]
TextOutput(text) == [type |-> "str", val |-> [NoValue EXCEPT !.type = "str", !.text = text]]
Denoted ==
    { << ArgsObject, [type |-> "dict", val |-> CityParis] >>,
      << ArgsList, [type |-> "list", val |-> ListOfOne] >>,
      << ArgsNull, NoneOutput >> }
CarriesResponse(p) ==
    IF func_spec[p] = Null
    THEN outcome[p].output = IF FirstChoice(p).content = Null THEN NoneOutput
                             ELSE TextOutput(FirstChoice(p).content)
    ELSE /\ FirstChoice(p).tool_calls # <<>>
         /\ << FirstChoice(p).tool_calls[1].arguments, outcome[p].output >> \in Denoted

\* the least total of k backoff delays: 1 + 2 + ... + 2^(k-1)
LeastBackoff(k) == 2 ^ k - 1

\* C11: when the attempts before the last failed with listed failures and the
\* last one succeeded, query returns the result decoded from that response,
\* the attempts made are one more than the sleeps, and the elapsed time covers
\* the backoff delays slept.
C11_RetryThenSuccess ==
    \A p \in Procs : pc[p] = "returned" =>
        /\ lastFailure[p] = Null
        /\ calls[p] = sleeps[p] + 1
        /\ calls[p] <= MaxTries
        /\ slept[p] >= LeastBackoff(sleeps[p])
        /\ outcome[p].req_time >= slept[p] + calls[p] * CallTime
        /\ completion[p].choices # <<>>
        /\ CarriesResponse(p)
        /\ outcome[p].in_tokens = completion[p].usage.prompt_tokens
        /\ outcome[p].out_tokens = completion[p].usage.completion_tokens

\* C11 witness: two listed failures, then a tool call whose arguments were
\* decoded, on the third attempt.
C11_Witness ==
    \E p \in Procs :
        /\ pc[p] = "returned"
        /\ calls[p] = 3
        /\ sleeps[p] = 2
        /\ slept[p] >= 3
        /\ func_spec[p] = FuncName
        /\ outcome[p].output = [type |-> "dict", val |-> CityParis]
        /\ outcome[p].req_time >= slept[p]

\* the failure kinds the interface lists: retries exhausted, a contract
\* violation, a payload that does not decode, another remote-call exception
ListedFailureKinds ==
    { "RetryExhausted", "AssertionError", "JSONDecodeError" }
        \cup (RemoteFailures \ Whitelisted)

\* a result with its five fields
WellFormedResult(o) ==
    /\ o.kind = "return"
    /\ o.output # NoOutput
    /\ o.req_time >= 0
    /\ o.in_tokens >= 0
    /\ o.out_tokens >= 0
    /\ o.info # Null

\* C12 (as claimed): a call of query ends with a well-formed result or with a
\* failure of one of the listed kinds, and with nothing else.
C12_ResultOrListedFailure ==
    \A p \in Procs : pc[p] \in { "returned", "raised" } =>
        \/ pc[p] = "returned" /\ WellFormedResult(outcome[p])
        \/ /\ pc[p] = "raised"
           /\ outcome[p].kind = "raise"
           /\ outcome[p].exc \in ListedFailureKinds

----------------------------------------------------------------------------
(* The keyword arguments of the remote call *)

\* the keys of the caller's options whose value is not None
NotNoneKeys(kw) == { k \in DOMAIN kw : kw[k] # NoneValue }

ToolKeys == { "tools", "tool_choice" }

\* the request r carries key k of the options kw iff its value is not None,
\* and then with that value
CarriedUnchanged(r, kw, k) ==
    IF kw[k] = NoneValue THEN k \notin DOMAIN r
    ELSE k \in DOMAIN r /\ r[k] = kw[k]

\* the options query has assembled for the remote call of p (filtered_kwargs,
\* complete at line 111 and passed at line 117), and those it has transmitted.
\* Lines 103-110 run in every query that gets past line 102, with or without
\* a client: a query that skipped the initialisation after the call of line 88
\* had raised assembles its options before line 114 fails.
Assembled(p) == pc[p] \in { "create", "attempt", "backoff", "decode" }
Requests(p) == sent[p] \cup (IF Assembled(p) THEN { request[p] } ELSE {})

PassedOn(p) ==
    IF func_spec[p] = Null THEN DOMAIN kwargs[p] ELSE DOMAIN kwargs[p] \ ToolKeys

----------------------------------------------------------------------------
(* Timing *)

\* the time the remote call of p's query took: its attempts and its sleeps
RemoteCallTime(p) == calls[p] * CallTime + slept[p]

\* C14 (as claimed): the timer starts only when the client initialisation, the
\* resolution and the construction, has finished, so it shows nothing while the
\* client is initialised or the request assembled; it runs over the remote
\* call alone, and what it shows when the response arrives is what query
\* returns, after decoding.
C14_TimedAroundRemoteCall ==
    \A p \in Procs :
        /\ pc[p] \in { "setup", "resolve", "probe", "construct", "prepare" } =>
               elapsed[p] = 0
        /\ InTimedWindow(p) => resolverRuns = 1 /\ constructions = 1 /\ client # NoClient
        /\ pc[p] \in { "create", "attempt", "backoff", "decode" } =>
               elapsed[p] = RemoteCallTime(p)
        /\ pc[p] = "returned" => outcome[p].req_time = RemoteCallTime(p)

----------------------------------------------------------------------------
(* The lock of the once wrapper *)

\* p is in its remote call: attempting, or sleeping between attempts
InRetryPhase(p) == pc[p] \in { "attempt", "backoff" }

\* C15: a caller past the initialisation guard holds no lock, and while a
\* caller is in its remote call or sleeps between retries the lock is free:
\* every caller waiting at the guard can pass it.
C15_NoLockDuringRemoteCall ==
    \A p \in Procs :
        /\ pc[p] \in { "prepare", "create", "attempt", "backoff", "decode" } => lockHolder # p
        /\ InRetryPhase(p) =>
               /\ lockHolder = 0
               /\ \A q \in Procs \ { p } : pc[q] = "setup" => ENABLED OnceSkip(q)

\* C15 witness: one caller sleeps between retries while another, which has
\* passed the guard, has issued its own remote call and has its response.
C15_Witness ==
    \E p, q \in Procs :
        /\ p # q
        /\ pc[p] = "backoff"
        /\ pc[q] = "decode"
        /\ calls[q] = 1
        /\ lockHolder = 0

----------------------------------------------------------------------------
(* The client handle and the single run of the initialisation *)

\* the client the single construction builds in this environment
BuiltClient == OpenAI(get_docker_host_ip(openOutcome, routeLines, dnsOutcome).ip)

C16_Handle ==
    client # NoClient =>
        /\ client = BuiltClient
        /\ constructions = 1
        /\ observed \subseteq { client }

C16_Kept ==
    client # NoClient => client' = client /\ constructions' = constructions

\* C16: once constructed, the client handle is the one the single construction
\* set, bound to the resolved host, and no step of any query, returning or
\* raising, changes it or constructs another.
C16_HandleNeverChanges == []C16_Handle /\ [][C16_Kept]_vars

\* C16 witness: with the client constructed, a query has failed, and a later
\* query made its remote call on the same handle and returned.
C16_Witness ==
    /\ client = BuiltClient
    /\ client # NoClient
    /\ failedQueries >= 1
    /\ queries >= 2
    /\ observed = { client }
    /\ pc[1] = "returned"
    /\ calls[1] >= 1

\* the single run of the initialisation has raised
InitFailed == done /\ lockHolder = 0 /\ client = NoClient

InInitBody(p) == pc[p] \in { "resolve", "probe", "construct" }

C19_Once ==
    /\ resolverRuns <= 1
    /\ constructions <= 1
    /\ \A p \in Procs : InInitBody(p) => lockHolder = p /\ resolverRuns + constructions <= 1
    /\ InitFailed => \A p \in Procs : ~InInitBody(p)

C19_Stays ==
    InitFailed =>
        /\ InitFailed'
        /\ resolverRuns' = resolverRuns
        /\ constructions' = constructions

\* C19: the initialisation body runs at most once, also when that run raises:
\* after it has raised no caller enters the resolution, the probe or the
\* construction again, and the client stays unset.
C19_AtMostOnceEvenIfFailed == []C19_Once /\ [][C19_Stays]_vars

\* C19 witness: the single run raised at the probe, and a later query has
\* skipped the initialisation and raised at line 114, the client being None.
C19_Witness ==
    \E p \in Procs :
        /\ InitFailed
        /\ resolverRuns = 1
        /\ constructions = 0
        /\ failedQueries >= 1
        /\ pc[p] = "raised"
        /\ host[p] = <<>>
        /\ outcome[p].exc = "AttributeError"

----------------------------------------------------------------------------
(* Byte order of the gateway, checked under SpecResolver *)

\* the gateway field of the row the route-table tier returns from
ReturningGateway == TableRows[FirstQualifying][3]

\* C17: an address returned from the route-table tier has as its octets the
\* four byte pairs of the row's 8-digit gateway field in reversed order, the
\* last pair first: 0100A8C0 gives 192.168.0.1.
C17_ByteOrderCorrected ==
    /\ InetNtoa(PackLE(ParseHex(GwA))) = <<192, 168, 0, 1>>
    /\ (resolved # NotCalled /\ resolved.tier = "route") =>
           /\ QualifyingRows # {}
           /\ WellFormedGateway(ReturningGateway) =>
                  resolved.ip = GatewayAddress(ReturningGateway)

\* C17 witness: the gateway field FE01A8C0 was returned as 192.168.1.254.
C17_Witness ==
    /\ resolved # NotCalled
    /\ resolved.tier = "route"
    /\ ReturningGateway = GwC
    /\ resolved.ip = <<192, 168, 1, 254>>

----------------------------------------------------------------------------
(* Tool declaration *)

\* C18: with a function spec, what every attempt transmits declares one tool,
\* the schema of that function spec, and the choice that forces it, whatever
\* the caller's options say about tools and tool_choice; without one, tools
\* and tool_choice are transmitted only as the caller gave them.
C18_SoleForcedTool ==
    \A p \in Procs :
        /\ Cardinality(sent[p]) <= 1
        /\ calls[p] >= 1 => sent[p] # {}
        /\ \A r \in sent[p] :
             IF func_spec[p] # Null
             THEN /\ ToolKeys \subseteq DOMAIN r
                  /\ r["tools"].kind = "list"
                  /\ Len(r["tools"].items) = 1
                  /\ r["tools"].items[1] = as_openai_tool_dict(func_spec[p])
                  /\ r["tool_choice"] = openai_tool_choice_dict(func_spec[p])
             ELSE \A k \in ToolKeys :
                      /\ k \in DOMAIN r => k \in DOMAIN kwargs[p] /\ r[k] = kwargs[p][k]
                      /\ k \notin DOMAIN kwargs[p] => k \notin DOMAIN r

\* C18 witness: the caller passed tools and tool_choice of its own together
\* with a function spec, and both attempts of the query declared the function
\* spec alone.
C18_Witness ==
    \E p \in Procs :
        /\ func_spec[p] = FuncName
        /\ "tools" \in DOMAIN kwargs[p]
        /\ kwargs[p]["tools"].kind = "list"
        /\ calls[p] = 2
        /\ sent[p] = { [k \in ToolKeys |->
                           IF k = "tools" THEN List(<<"tool get_weather">>)
                           ELSE Scalar("function get_weather")] }

====
